---- MODULE Spec2Model ----
(***************************************************************************)
(* A model of ada-mobile: the server's HTML normalisation pipeline         *)
(* (stripLegacyStyling, stripLineBreaks, flattenMarginTables, fixImages)   *)
(* and the client's link classifier, snippet matcher and overlay stack.    *)
(*                                                                         *)
(* A document tree is a heap: a sequence of nodes, a node's identity being *)
(* its index, its children a sequence of indices in document order.  A     *)
(* string is a sequence of tokens (characters, or lexical chunks of an     *)
(* href), so that trimming, cutting, splitting and lower-casing are        *)
(* computed rather than assumed.                                           *)
(***************************************************************************)
EXTENDS Integers, Sequences, FiniteSets, TLC

VARIABLES
    \* --- server pipeline (one chapter root going through the stages) ---
    dom,        \* the heap of the tree under textRoot / notesRoot
    domIn,      \* the heap as flattenMarginTables received it
    pc,         \* the stage the pipeline is at
    tables,     \* flattenMarginTables' snapshot of root.querySelectorAll('table')
    ti,         \* how many tables of the snapshot forEach has visited
    last,       \* the last visit of forEach: [table, pre, wrapper]
    swapped,    \* the table.replaceWith(wrapper) calls made so far: <<table, wrapper>> pairs
    \* --- client: one anchor being classified ---
    rawHref,    \* a.getAttribute('href') || ''
    place,      \* the fragment the anchor is in: "text" or "overlay"
    key,        \* what normalizeAdaHref(rawHref) returned, once called
    wiring,     \* what wireTextLinks / wireOverlayLinks did to the anchor, once run
    \* --- client: one call of findNoteSnippet ---
    noteDoc,    \* the tree under notesDom as a heap, <<>> when notesDom is null
    phrase,     \* the argument
    snippet,    \* what the call returned, once made: [best, buf]
    \* --- client: the page ---
    listState,      \* loadChapterList: "pending", "ok" or "failed"
    selectValue,    \* chapterSelect.value
    chapterTitle,   \* chapterTitle.textContent
    textContainer,  \* what #text shows: [kind, chapter]
    notesHtml,      \* the notes fragment of the last chapter response applied
    notesDom,       \* the chapter whose notes were parsed into notesDom, "null" for null
    overlay,        \* overlayStack and what renderOverlay left on the page
    inflight,       \* the loadChapter calls awaiting their response: [chapter, trigger]
    event,          \* history: the handler that ran last, its argument, the overlay and the text before it
    \* --- server: one request to /api/chapter/:id or /api/ref/:file ---
    revision,       \* which revision of the chapter handler serves: "catalog" or "single"
    request,        \* [route, param]
    stage,          \* where the handler stands
    fetches,        \* the upstream fetches issued so far, in order: [url, state]
    responses       \* the responses sent so far, in order

pipeVars == <<dom, domIn, pc, tables, ti, last, swapped>>

hrefVars == <<rawHref, place, key, wiring>>

noteVars == <<noteDoc, phrase, snippet>>

pageVars == <<listState, selectValue, chapterTitle, textContainer, notesHtml, notesDom,
              overlay, inflight, event>>

serveVars == <<revision, request, stage, fetches, responses>>

vars == <<dom, domIn, pc, tables, ti, last, swapped, rawHref, place, key, wiring,
          noteDoc, phrase, snippet, listState, selectValue, chapterTitle, textContainer,
          notesHtml, notesDom, overlay, inflight, event,
          revision, request, stage, fetches, responses>>

-----------------------------------------------------------------------------
(* Bounds *)

MaxRows == 2

MaxHrefTail == 3

MaxBlocks == 2

MaxDepth == 3

MaxInflight == 2

MaxFileLen == 3

-----------------------------------------------------------------------------
(* Each part of the program is run on its own; the others then stand idle *)

NoVisit == [table |-> 0, pre |-> <<>>, wrapper |-> 0]

PipeIdle ==
    /\ dom = <<>>
    /\ domIn = <<>>
    /\ pc = "idle"
    /\ tables = <<>>
    /\ ti = 0
    /\ last = NoVisit
    /\ swapped = <<>>

Unset == <<"(unset)">>

NoWiring == [listener |-> "unset", chapter |-> "null", href |-> <<>>, target |-> ""]

HrefIdle ==
    /\ rawHref = <<>>
    /\ place = "none"
    /\ key = Unset
    /\ wiring = NoWiring

NoSnippet == [best |-> -1, buf |-> <<>>]

NoteIdle ==
    /\ noteDoc = <<>>
    /\ phrase = <<>>
    /\ snippet = NoSnippet

NoOverlay ==
    [stack |-> <<>>, visible |-> FALSE, hasStack |-> FALSE, modalOpen |-> FALSE,
     content |-> <<>>, title |-> <<>>]

NoEvent == [handler |-> "none", arg |-> <<>>, before |-> NoOverlay,
            text |-> [kind |-> "initial", chapter |-> ""]]

PageIdle ==
    /\ listState = "idle"
    /\ selectValue = ""
    /\ chapterTitle = ""
    /\ textContainer = [kind |-> "initial", chapter |-> ""]
    /\ notesHtml = <<>>
    /\ notesDom = "null"
    /\ overlay = NoOverlay
    /\ inflight = <<>>
    /\ event = NoEvent

ServeIdle ==
    /\ revision = "none"
    /\ request = [route |-> "none", id |-> "", file |-> <<>>]
    /\ stage = "idle"
    /\ fetches = <<>>
    /\ responses = <<>>

-----------------------------------------------------------------------------
(* Sequences *)

RECURSIVE Concat(_)
Concat(ss) ==
    IF ss = <<>> THEN <<>> ELSE Head(ss) \o Concat(Tail(ss))

Contains(s, x) == \E i \in 1..Len(s) : s[i] = x

IndexOf(s, x) ==
    IF Contains(s, x) THEN CHOOSE i \in 1..Len(s) : s[i] = x /\ \A j \in 1..(i-1) : s[j] # x
    ELSE 0

RECURSIVE SeqsUpTo(_,_)
SeqsUpTo(S, n) ==
    IF n = 0 THEN {<<>>}
    ELSE LET shorter == SeqsUpTo(S, n - 1)
         IN  shorter \cup {Append(s, x) : s \in {t \in shorter : Len(t) = n - 1}, x \in S}

-----------------------------------------------------------------------------
(* Strings as token sequences: String.prototype.trim *)

WhiteSpace == {" ", "\n"}

RECURSIVE TrimLeft(_)
TrimLeft(s) ==
    IF s # <<>> /\ Head(s) \in WhiteSpace THEN TrimLeft(Tail(s)) ELSE s

RECURSIVE TrimRight(_)
TrimRight(s) ==
    IF s # <<>> /\ s[Len(s)] \in WhiteSpace THEN TrimRight(SubSeq(s, 1, Len(s) - 1)) ELSE s

Trim(s) == TrimRight(TrimLeft(s))

-----------------------------------------------------------------------------
(* The DOM capability: a heap of nodes *)

Node(t) ==
    [tag |-> t, kids |-> <<>>, text |-> <<>>, style |-> "none", src |-> "none", sized |-> FALSE,
     href |-> <<>>]

TextNode(chars) == [Node("#text") EXCEPT !.text = chars]

Root == 1

RECURSIVE DescOfList(_,_)
DescOfList(d, ks) ==
    IF ks = <<>> THEN <<>>
    ELSE <<Head(ks)>> \o DescOfList(d, d[Head(ks)].kids) \o DescOfList(d, Tail(ks))

\* the descendants of n in document order (n itself excluded)
Descendants(d, n) == DescOfList(d, d[n].kids)

QuerySelectorAll(d, n, tags) ==
    SelectSeq(Descendants(d, n), LAMBDA x : d[x].tag \in tags)

RECURSIVE TextContent(_,_)
TextContent(d, n) ==
    IF d[n].tag = "#text" THEN d[n].text
    ELSE Concat([i \in 1..Len(d[n].kids) |-> TextContent(d, d[n].kids[i])])

\* Element.children: the element children, text nodes left out
Children(d, n) == SelectSeq(d[n].kids, LAMBDA x : d[x].tag # "#text")

HasParent(d, n) == \E p \in DOMAIN d : Contains(d[p].kids, n)

ParentOf(d, n) == CHOOSE p \in DOMAIN d : Contains(d[p].kids, n)

\* Element.remove() for every node of the set ns
RemoveAll(d, ns) ==
    [i \in DOMAIN d |-> [d[i] EXCEPT !.kids = SelectSeq(@, LAMBDA k : k \notin ns)]]

\* Element.replaceWith: a node without a parent is left where it is
ReplaceWith(d, n, w) ==
    IF ~HasParent(d, n) THEN d
    ELSE LET p == ParentOf(d, n)
         IN  [d EXCEPT ![p].kids = [i \in 1..Len(@) |-> IF @[i] = n THEN w ELSE @[i]]]

Reachable(d, n) == n = Root \/ Contains(Descendants(d, Root), n)

-----------------------------------------------------------------------------
(* stripLegacyStyling, stripLineBreaks, fixImages *)

SeqToSet(s) == {s[i] : i \in 1..Len(s)}

\* a stripLegacyStyling that removes the style and link elements only
StripElementsOnly(d, root) ==
    RemoveAll(d, SeqToSet(QuerySelectorAll(d, root, {"style", "link"})))

StripLegacyStyling(d, root) ==
    LET gone == SeqToSet(QuerySelectorAll(d, root, {"style", "link"}))
        d1   == RemoveAll(d, gone)
        styled == {n \in SeqToSet(Descendants(d1, root)) : d1[n].style # "none"}
    IN  [i \in DOMAIN d1 |-> IF i \in styled THEN [d1[i] EXCEPT !.style = "none"] ELSE d1[i]]

StripLineBreaks(d, root) ==
    RemoveAll(d, SeqToSet(QuerySelectorAll(d, root, {"br"})))

\* new URL(src, baseUrl).toString(): a relative reference resolves, a malformed
\* one throws and src stays as it was
ResolveSrc(src) ==
    IF src = "rel" THEN "abs" ELSE src

FixImage(n) ==
    IF n.src = "empty" THEN n
    ELSE [n EXCEPT !.src = ResolveSrc(@), !.sized = FALSE, !.style = "responsive"]

FixImages(d, root) ==
    LET imgs == {n \in SeqToSet(QuerySelectorAll(d, root, {"img"})) : d[n].src # "none"}
    IN  [i \in DOMAIN d |-> IF i \in imgs THEN FixImage(d[i]) ELSE d[i]]

-----------------------------------------------------------------------------
(* flattenMarginTables *)

\* an every() that accepts a row of two or more cells
AtLeastTwoCols(d, trs) ==
    \A i \in 1..Len(trs) :
        /\ Len(Children(d, trs[i])) >= 2
        /\ d[Children(d, trs[i])[1]].tag = "td"
        /\ d[Children(d, trs[i])[2]].tag = "td"

\* trs.every(tr => tr.children.length === 2 && both children are td)
AllTwoCols(d, trs) ==
    \A i \in 1..Len(trs) :
        LET cells == Children(d, trs[i])
        IN  /\ Len(cells) = 2
            /\ d[cells[1]].tag = "td"
            /\ d[cells[2]].tag = "td"

\* the cells a row's loop body reads: tr.querySelectorAll('td')
RowCells(d, tr) == QuerySelectorAll(d, tr, {"td"})

\* one iteration of trs.forEach((tr, idx) => ...), idx counted from 1; w is the wrapper
RowStep(d, tr, idx, w) ==
    LET cells == RowCells(d, tr)
    IN  IF Len(cells) < 2 THEN d
        ELSE
        LET marginCell  == cells[1]
            contentCell == cells[2]
            hasMarker   == Trim(TextContent(d, marginCell)) # <<>>
            markerFrag  == d[marginCell].kids
            d1          == [d EXCEPT ![marginCell].kids = <<>>]
            contentFrag == d1[contentCell].kids
            d2          == [d1 EXCEPT ![contentCell].kids = <<>>]
            br1         == Len(d2) + 1
            br2         == Len(d2) + 2
        IN  IF idx = 1 THEN
                IF hasMarker
                THEN [Append(d2, Node("br")) EXCEPT ![w].kids = @ \o markerFrag \o <<br1>> \o contentFrag]
                ELSE [d2 EXCEPT ![w].kids = @ \o contentFrag]
            ELSE IF hasMarker
            THEN [Append(Append(d2, Node("br")), Node("br"))
                    EXCEPT ![w].kids = @ \o <<br1>> \o markerFrag \o <<br2>> \o contentFrag]
            ELSE [Append(d2, TextNode(<<" ">>)) EXCEPT ![w].kids = @ \o <<br1>> \o contentFrag]

RECURSIVE RowsLoop(_,_,_,_)
RowsLoop(d, trs, idx, w) ==
    IF idx > Len(trs) THEN d
    ELSE RowsLoop(RowStep(d, trs[idx], idx, w), trs, idx + 1, w)

\* the rows a table is judged and flattened by: table.querySelectorAll('tr')
TableRows(d, table) == QuerySelectorAll(d, table, {"tr"})

\* whether the forEach body goes on to replace the table
Qualifies(d, table) ==
    LET trs == TableRows(d, table)
    IN  trs # <<>> /\ AllTwoCols(d, trs)

\* the body of tables.forEach(table => ...)
FlattenTable(d, table) ==
    IF ~Qualifies(d, table) THEN d
    ELSE LET wrapper == Len(d) + 1
             d1 == Append(d, Node("p"))
             d2 == RowsLoop(d1, TableRows(d, table), 1, wrapper)
         IN  ReplaceWith(d2, table, wrapper)

-----------------------------------------------------------------------------
(* The upstream pages the pipeline is run on *)

Digit(i) == <<"1", "2", "3", "4", "5">>[i]

\* d with node nd added as the last child of parent; the new node is Len of the result
AddChild(d, parent, nd) ==
    [Append(d, nd) EXCEPT ![parent].kids = Append(@, Len(d) + 1)]

AddTextCell(d, tr, tag, chars) ==
    LET d1 == AddChild(d, tr, Node(tag))
    IN  AddChild(d1, Len(d1), TextNode(chars))

NestKinds == {"good", "bad", "norows"}

\* a table nested in a cell: one row of two td, one row of three td, or no row
BuildNested(d, cell, nest) ==
    LET d1 == AddChild(d, cell, Node("table"))
        t  == Len(d1)
    IN  IF nest = "norows" THEN d1
        ELSE LET d2 == AddChild(d1, t, Node("tbody"))
                 d3 == AddChild(d2, Len(d2), Node("tr"))
                 tr == Len(d3)
                 d4 == AddTextCell(d3, tr, "td", <<"a">>)
                 d5 == AddTextCell(d4, tr, "td", <<"b">>)
             IN  IF nest = "good" THEN d5 ELSE AddTextCell(d5, tr, "td", <<"c">>)

MarkerKinds == {"empty", "ws", "word", "table"}
ContentKinds == {"word", "img", "table"}

RowKinds ==
    [cells : {"td2"}, marker : MarkerKinds, content : ContentKinds]
    \cup [cells : {"td1", "td3", "tdth"}, marker : {"word"}, content : {"word"}]

FillMarker(d, cell, kind, i, nest) ==
    CASE kind = "empty" -> d
      [] kind = "ws"    -> AddChild(d, cell, TextNode(<<" ">>))
      [] kind = "word"  -> AddChild(d, cell, TextNode(<<"m", Digit(i)>>))
      [] kind = "table" -> BuildNested(d, cell, nest)

FillContent(d, cell, kind, i, nest) ==
    LET d1 == AddChild(d, cell, TextNode(<<"c", Digit(i)>>))
    IN  CASE kind = "word"  -> d1
          [] kind = "img"   -> AddChild(d1, cell,
                                 [Node("img") EXCEPT !.style = "legacy", !.src = "rel", !.sized = TRUE])
          [] kind = "table" -> BuildNested(d1, cell, nest)

BuildRow(d, tbody, row, i, nest) ==
    LET d1 == AddChild(d, tbody, Node("tr"))
        tr == Len(d1)
    IN  CASE row.cells = "td1" -> AddTextCell(d1, tr, "td", <<"c", Digit(i)>>)
          [] row.cells = "td3" ->
                AddTextCell(AddTextCell(AddTextCell(d1, tr, "td", <<"m", Digit(i)>>),
                                        tr, "td", <<"c", Digit(i)>>), tr, "td", <<"x">>)
          [] row.cells = "tdth" ->
                AddTextCell(AddTextCell(d1, tr, "th", <<"m", Digit(i)>>), tr, "td", <<"c", Digit(i)>>)
          [] row.cells = "td2" ->
                LET d2 == AddChild(d1, tr, Node("td"))
                    d3 == FillMarker(d2, Len(d2), row.marker, i, nest)
                    d4 == AddChild(d3, tr, Node("td"))
                IN  FillContent(d4, Len(d4), row.content, i, nest)

RECURSIVE BuildRows(_,_,_,_,_)
BuildRows(d, tbody, rows, i, nest) ==
    IF i > Len(rows) THEN d
    ELSE BuildRows(BuildRow(d, tbody, rows[i], i, nest), tbody, rows, i + 1, nest)

\* the head matter of a legacy page: <style>, <link>, a styled <span>, a <br>, and
\* images with no src, an empty src, an absolute src and a malformed one
BuildExtras(d) ==
    LET d1 == AddChild(d, Root, Node("style"))
        d2 == AddChild(d1, Root, Node("link"))
        d3 == AddChild(d2, Root, [Node("span") EXCEPT !.style = "legacy"])
        d4 == AddChild(d3, Len(d3), TextNode(<<"t">>))
        d5 == AddChild(d4, Root, Node("br"))
        d6 == AddChild(d5, Root, [Node("img") EXCEPT !.style = "legacy"])
        d7 == AddChild(d6, Root, [Node("img") EXCEPT !.src = "empty", !.sized = TRUE])
        d8 == AddChild(d7, Root, [Node("img") EXCEPT !.src = "abs", !.sized = TRUE])
    IN  AddChild(d8, Root, [Node("img") EXCEPT !.src = "bad", !.style = "legacy"])

\* a page: the head matter, then one table of the given rows (a table without
\* rows has no tbody)
BuildPage(rows, nest) ==
    LET d0 == BuildExtras(<<Node("body")>>)
        d1 == AddChild(d0, Root, Node("table"))
        t  == Len(d1)
    IN  IF rows = <<>> THEN d1
        ELSE LET d2 == AddChild(d1, t, Node("tbody"))
             IN  BuildRows(d2, Len(d2), rows, 1, nest)

Pages == {BuildPage(rows, nest) : rows \in SeqsUpTo(RowKinds, MaxRows), nest \in NestKinds}

-----------------------------------------------------------------------------
(* Hrefs: a string is a sequence of lexical tokens *)

AdaOrigin == "https://www.ada.auckland.ac.nz"
OtherOrigin == "http://example.org"
BareScheme == "HTTPS://"

\* the tokens /^https?:\/\//i matches at the start of a string
SchemeTokens == {AdaOrigin, OtherOrigin, BareScheme}

\* the tokens that end in .htm, in either case
HtmTokens == {"ada11.htm", "ada12.htm", "ADA12.HTM", "ada4.htm", "ada11ann.htm", "foo.htm"}

\* the tokens /ada\d+ann\.htm/i matches
AnnTokens == {"ada11ann.htm"}

\* String.prototype.toLowerCase, token by token
LowerToken(t) ==
    CASE t = "ADA12.HTM" -> "ada12.htm"
      [] t = BareScheme  -> "https://"
      [] t = "A"         -> "a"
      [] t = "B"         -> "b"
      [] OTHER           -> t

UpperTokens == {"ADA12.HTM", BareScheme, "A", "B"}

ToLowerCase(s) == [i \in 1..Len(s) |-> LowerToken(s[i])]

\* the value that stands for null
Null == <<"(null)">>

\* s.split('/').pop(): what follows the last '/'
LastSegment(s) ==
    IF ~Contains(s, "/") THEN s
    ELSE LET i == CHOOSE j \in 1..Len(s) : s[j] = "/" /\ \A k \in (j+1)..Len(s) : s[k] # "/"
         IN  SubSeq(s, i + 1, Len(s))

RECURSIVE DropLeadingSlashes(_)
DropLeadingSlashes(s) ==
    IF s # <<>> /\ Head(s) = "/" THEN DropLeadingSlashes(Tail(s)) ELSE s

\* new URL(s) for a string that starts with a scheme: leading and trailing
\* spaces are stripped, slashes after a bare scheme are skipped, the host runs
\* to the first '/', an empty host or a space in the host throws, a space in
\* the path is percent-encoded. [ok, pathname]
ParseURL(s) ==
    LET t     == Trim(s)
        after == IF Head(t) = BareScheme THEN DropLeadingSlashes(Tail(t)) ELSE Tail(t)
        slash == IndexOf(after, "/")
        host  == IF slash = 0 THEN after ELSE SubSeq(after, 1, slash - 1)
        path  == IF slash = 0 THEN <<"/">> ELSE SubSeq(after, slash, Len(after))
    IN  IF (Head(t) = BareScheme /\ host = <<>>) \/ Contains(host, " ")
        THEN [ok |-> FALSE, pathname |-> <<>>]
        ELSE [ok |-> TRUE,
              pathname |-> [i \in 1..Len(path) |-> IF path[i] = " " THEN "%20" ELSE path[i]]]

IsAbsolute(s) == s # <<>> /\ Head(s) \in SchemeTokens

-----------------------------------------------------------------------------
(* The client's catalog and its href index *)

ChapterIds == {"p1c1", "p1c2", "p4c1"}

\* what /api/chapters answered
ChaptersMeta ==
    << [id |-> "p1c1", textUrl |-> <<AdaOrigin, "/", "ada11.htm">>],
       [id |-> "p1c2", textUrl |-> <<AdaOrigin, "/", "ada12.htm">>],
       [id |-> "p4c1", textUrl |-> <<AdaOrigin, "/", "ada4.htm">>] >>

\* (u.pathname.split('/').pop() || '').toLowerCase(), empty when new URL throws
FileOfURL(u) == IF u.ok THEN ToLowerCase(LastSegment(u.pathname)) ELSE <<>>

\* map[file] = id
MapPut(map, file, id) ==
    IF file = <<>> THEN map
    ELSE [k \in DOMAIN map \cup {file} |-> IF k = file THEN id ELSE map[k]]

\* chapters.forEach from the i-th chapter on
RECURSIVE ForEachChapter(_,_,_)
ForEachChapter(chapters, i, map) ==
    IF i > Len(chapters) THEN map
    ELSE IF chapters[i].textUrl = <<>> THEN ForEachChapter(chapters, i + 1, map)
    ELSE ForEachChapter(chapters, i + 1,
            MapPut(map, FileOfURL(ParseURL(chapters[i].textUrl)), chapters[i].id))

BuildChapterHrefMap(chapters) == ForEachChapter(chapters, 1, <<>>)

chapterHrefMap == BuildChapterHrefMap(ChaptersMeta)

\* the lower-case property names a plain object inherits
InheritedKeys == {<<"constructor">>}

\* chapterHrefMap[key]: an own property, else an inherited one, else undefined
PropertyOf(map, k) ==
    IF k \in DOMAIN map THEN map[k]
    ELSE IF k \in InheritedKeys THEN "[inherited]"
    ELSE "undefined"

MapGet(k) == PropertyOf(chapterHrefMap, k)

-----------------------------------------------------------------------------
(* isAdaNoteHref, isRelativeAdaDoc, makeAdaAbsolute, normalizeAdaHref *)

IsAdaNoteHref(href) ==
    IF href = <<>> THEN TRUE
    ELSE LET h == Trim(href)
         IN  \/ h = <<>>
             \/ h = <<"#">>
             \/ Head(h) = "#"
             \/ \E i \in 1..Len(h) : h[i] \in AnnTokens

IsRelativeAdaDoc(href) ==
    IF href = <<>> THEN FALSE
    ELSE IF Head(href) \in SchemeTokens THEN Head(href) = AdaOrigin
    ELSE \E i \in 1..Len(href) :
            /\ href[i] \in HtmTokens
            /\ (i = Len(href) \/ href[i + 1] \in {"?", "#"})

MakeAdaAbsolute(href) ==
    IF href = <<>> THEN <<AdaOrigin, "/">>
    ELSE IF Head(href) \in SchemeTokens THEN href
    ELSE <<AdaOrigin, "/">> \o DropLeadingSlashes(href)

\* a cut at the first '#' only
CutHash(s) ==
    IF IndexOf(s, "#") > 0 THEN SubSeq(s, 1, IndexOf(s, "#") - 1) ELSE s

\* the prefix of s before the first '#' or '?'
CutQueryHash(s) ==
    LET hashIdx == IndexOf(s, "#")
        qIdx    == IndexOf(s, "?")
        cut0    == Len(s) + 1
        cut1    == IF hashIdx > 0 /\ hashIdx < cut0 THEN hashIdx ELSE cut0
        cut     == IF qIdx > 0 /\ qIdx < cut1 THEN qIdx ELSE cut1
    IN  SubSeq(s, 1, cut - 1)

\* s.toLowerCase() || null
LowerOrNull(s) == IF s = <<>> THEN Null ELSE ToLowerCase(s)

\* the try block: the last path segment of the URL, s itself when new URL throws
SegmentOfURL(s, url) == IF url.ok THEN LastSegment(url.pathname) ELSE s

\* normalizeAdaHref once query and hash are cut off
NormalizeCut(s) ==
    IF s = <<>> THEN Null
    ELSE IF IsAbsolute(s) THEN LowerOrNull(SegmentOfURL(s, ParseURL(s)))
    ELSE LowerOrNull(LastSegment(s))

\* normalizeAdaHref once trimmed
NormalizeTrimmed(s) == IF s = <<>> THEN Null ELSE NormalizeCut(CutQueryHash(s))

NormalizeAdaHref(href) == IF href = <<>> THEN Null ELSE NormalizeTrimmed(Trim(href))

\* v || null
OrNull(v) == IF v = "undefined" THEN "null" ELSE v

\* lookupChapterIdForHref once the key is known
LookupKey(k) == IF k = Null THEN "null" ELSE OrNull(MapGet(k))

LookupChapterIdForHref(href) == LookupKey(NormalizeAdaHref(href))

-----------------------------------------------------------------------------
(* wireTextLinks and wireOverlayLinks, on one anchor *)

\* what the loop body leaves on the anchor: the click listener it added (if any),
\* the chapter a navigation listener loads, the href attribute and the target
\* rules 2 to 4, chapterId being what lookupChapterIdForHref returned
WireDocument(href, chapterId, navListener) ==
    IF chapterId # "null"
    THEN [listener |-> navListener, chapter |-> chapterId, href |-> href, target |-> ""]
    ELSE IF IsRelativeAdaDoc(href)
    THEN [listener |-> "none", chapter |-> "null", href |-> MakeAdaAbsolute(href), target |-> "_blank"]
    ELSE [listener |-> "none", chapter |-> "null", href |-> href, target |-> "_blank"]

Wire(href, noteListener, navListener) ==
    IF IsAdaNoteHref(href)
    THEN [listener |-> noteListener, chapter |-> "null", href |-> href, target |-> ""]
    ELSE WireDocument(href, LookupChapterIdForHref(href), navListener)

WireTextLink(href) == Wire(href, "onNoteClick", "loadChapter")

WireOverlayLink(href) == Wire(href, "onOverlayNoteClick", "closeAndLoadChapter")

\* the hrefs anchors are drawn from
HrefTokens == {"/", "?", "#", " ", "ada12.htm", "ADA12.HTM", "ada11ann.htm", "foo.htm", "x", "constructor"}

HrefHeads == {<<>>, <<AdaOrigin>>, <<OtherOrigin>>, <<BareScheme>>, <<" ", AdaOrigin>>}

Hrefs == {h \o t : h \in HrefHeads, t \in SeqsUpTo(HrefTokens, MaxHrefTail)}

HrefInit ==
    /\ ServeIdle
    /\ PipeIdle
    /\ NoteIdle
    /\ PageIdle
    /\ rawHref \in Hrefs
    /\ place \in {"text", "overlay"}
    /\ key = Unset
    /\ wiring = NoWiring

CallNormalizeAdaHref ==
    /\ place # "none"
    /\ key = Unset
    /\ key' = NormalizeAdaHref(rawHref)
    /\ UNCHANGED <<rawHref, place, wiring>>
    /\ UNCHANGED <<pipeVars, noteVars, pageVars, serveVars>>

WireTextLinks ==
    /\ place = "text"
    /\ wiring = NoWiring
    /\ wiring' = WireTextLink(rawHref)
    /\ UNCHANGED <<rawHref, place, key>>
    /\ UNCHANGED <<pipeVars, noteVars, pageVars, serveVars>>

WireOverlayLinks ==
    /\ place = "overlay"
    /\ wiring = NoWiring
    /\ wiring' = WireOverlayLink(rawHref)
    /\ UNCHANGED <<rawHref, place, key>>
    /\ UNCHANGED <<pipeVars, noteVars, pageVars, serveVars>>

HrefNext ==
    \/ CallNormalizeAdaHref
    \/ WireTextLinks
    \/ WireOverlayLinks

SpecHref == HrefInit /\ [][HrefNext]_vars

-----------------------------------------------------------------------------
(* Claims about the link classifier *)

NoteListeners == {"onNoteClick", "onOverlayNoteClick"}
NavListeners == {"loadChapter", "closeAndLoadChapter"}

\* rule 1 as the specification words it: empty, "#", a same-page fragment, or an
\* annotation file name
AnnotationReference(h) ==
    \/ h = <<>>
    \/ Head(h) = "#"
    \/ \E i \in 1..Len(h) : h[i] \in AnnTokens

\* C4 as stated: every anchor gets exactly one disposition, chosen by the first
\* rule that matches: an annotation reference is always wired to the commentary
\* overlay and never as navigation, its href left alone, also when its normalized
\* file name is in the chapter index or it points at the source host; any other
\* href whose normalized file name is in the index is wired to load that chapter,
\* its href neither rewritten nor opened in a new browsing context; and an href
\* whose normalized file name is not in the index is not wired as navigation.
C4_AsStated ==
    wiring # NoWiring =>
        LET inIndex == NormalizeAdaHref(rawHref) \in DOMAIN chapterHrefMap
        IN  /\ wiring.listener \in NoteListeners \cup NavListeners \cup {"none"}
            /\ wiring.listener = "none" <=> wiring.target = "_blank"
            /\ wiring.listener \in NavListeners <=> wiring.chapter # "null"
            /\ AnnotationReference(rawHref) =>
                  /\ wiring.listener \in NoteListeners
                  /\ wiring.href = rawHref
            /\ (~AnnotationReference(rawHref) /\ inIndex) =>
                  /\ wiring.listener \in NavListeners
                  /\ wiring.chapter = chapterHrefMap[NormalizeAdaHref(rawHref)]
                  /\ wiring.href = rawHref
            /\ wiring.listener \in NavListeners => inIndex

\* the tokens that hold a '/'
SlashTokens == {"/", AdaOrigin, OtherOrigin, BareScheme, "https://"}

Prefixes(s) == {SubSeq(s, 1, n) : n \in 0..Len(s)}
Suffixes(s) == {SubSeq(s, n, Len(s)) : n \in 1..(Len(s) + 1)}

\* the href without surrounding space, query string and fragment
Stripped(h) ==
    LET t == Trim(h)
    IN  CHOOSE p \in Prefixes(t) :
            /\ ~Contains(p, "?") /\ ~Contains(p, "#")
            /\ (Len(p) = Len(t) \/ t[Len(p) + 1] \in {"?", "#"})

\* the final '/'-delimited segment
FinalSegment(s) ==
    CHOOSE q \in Suffixes(s) :
        /\ ~Contains(q, "/")
        /\ (Len(q) = Len(s) \/ s[Len(s) - Len(q)] = "/")

Unparsable(s) == IsAbsolute(s) /\ ~ParseURL(s).ok

\* the final path segment of the stripped href, lower-cased; none when nothing is left
SegmentKey(h) ==
    LET s   == Stripped(h)
        seg == IF IsAbsolute(s) /\ ParseURL(s).ok THEN FinalSegment(ParseURL(s).pathname)
               ELSE FinalSegment(s)
    IN  IF seg = <<>> THEN Null ELSE ToLowerCase(seg)

CleanKey(k) == \A i \in 1..Len(k) : k[i] \notin {"?", "#"} \cup UpperTokens

Examples ==
    /\ NormalizeAdaHref(<<"ADA12.HTM", "?", "x", "#", "x">>) = <<"ada12.htm">>
    /\ NormalizeAdaHref(<<AdaOrigin, "/", "ADA12.HTM">>) = <<"ada12.htm">>
    /\ NormalizeAdaHref(<<>>) = Null
    /\ NormalizeAdaHref(<<"#">>) = Null

\* C5 as stated: for every non-empty href normalizeAdaHref returns the lower-cased
\* final path segment of the href without query and fragment, which holds no
\* '?', '#' or upper-case letter; an href that reduces to nothing yields no key.
C5_AsStated ==
    key # Unset =>
        /\ key = SegmentKey(rawHref)
        /\ key # Null => CleanKey(key) /\ \A i \in 1..Len(key) : key[i] \notin SlashTokens
        /\ Examples

\* C5 amended: the same, except that for an absolute URL that cannot be parsed
\* the key is the whole stripped href, lower-cased, slashes included.
C5_Normalized ==
    key # Unset =>
        /\ IF Stripped(rawHref) # <<>> /\ Unparsable(Stripped(rawHref))
           THEN key = ToLowerCase(Stripped(rawHref))
           ELSE /\ key = SegmentKey(rawHref)
                /\ key # Null => \A i \in 1..Len(key) : key[i] \notin SlashTokens
        /\ key # Null => CleanKey(key)
        /\ Examples

\* C5 witness: an upper-case file name with a query string came out lower-cased
\* and without the query.
C5_Witness ==
    /\ rawHref = <<" ", AdaOrigin, "/", "ADA12.HTM", "?">>
    /\ key = <<"ada12.htm">>

-----------------------------------------------------------------------------
(* normalize and findNoteSnippet *)

\* str.replace(/\s+/g, ' '): every run of white space becomes one space
RECURSIVE CollapseSpace(_)
CollapseSpace(s) ==
    IF s = <<>> THEN <<>>
    ELSE IF Head(s) \in WhiteSpace
         THEN <<" ">> \o CollapseSpace(TrimLeft(s))
         ELSE <<Head(s)>> \o CollapseSpace(Tail(s))

Normalize(str) == ToLowerCase(Trim(CollapseSpace(str)))

\* text.indexOf(normPhrase) !== -1
Includes(text, sub) ==
    \E i \in 1..(Len(text) - Len(sub) + 1) : SubSeq(text, i, i + Len(sub) - 1) = sub

CandidateTags == {"p", "div", "li", "dd"}

\* el.nextElementSibling, 0 for null
NextElementSibling(d, n) ==
    IF ~HasParent(d, n) THEN 0
    ELSE LET sibs == Children(d, ParentOf(d, n))
             i    == IndexOf(sibs, n)
         IN  IF i < Len(sibs) THEN sibs[i + 1] ELSE 0

\* a loop that keeps the first candidate that matches
FirstMatch(d, candidates, i, normPhrase, best, bestLen) ==
    LET hits == {j \in i..Len(candidates) :
                    Includes(Normalize(TextContent(d, candidates[j])), normPhrase)}
    IN  IF best # 0 \/ hits = {} THEN best
        ELSE candidates[CHOOSE j \in hits : \A k \in hits : j <= k]

\* the for loop over the candidates, from candidate number i on: best is 0 while
\* bestLen is still Infinity
RECURSIVE BestOf(_,_,_,_,_,_)
BestOf(d, candidates, i, normPhrase, best, bestLen) ==
    IF i > Len(candidates) THEN best
    ELSE LET el   == candidates[i]
             text == Normalize(TextContent(d, el))
         IN  IF text = <<>> THEN BestOf(d, candidates, i + 1, normPhrase, best, bestLen)
             ELSE IF Includes(text, normPhrase) /\ (best = 0 \/ Len(text) < bestLen)
             THEN BestOf(d, candidates, i + 1, normPhrase, el, Len(text))
             ELSE BestOf(d, candidates, i + 1, normPhrase, best, bestLen)

\* the while loop that gathers the following siblings
RECURSIVE Following(_,_,_)
Following(d, next, buf) ==
    IF next = 0 \/ Len(buf) >= 4 THEN buf
    ELSE IF Normalize(TextContent(d, next)) = <<>> THEN buf
    ELSE Following(d, NextElementSibling(d, next), Append(buf, next))

\* findNoteSnippet on the tree d (<<>> for a null notesDom): the block chosen (0
\* for none) and the blocks whose outerHTML the returned string joins; the
\* returned string is empty exactly when buf is
FindNoteSnippet(d, phr) ==
    LET normPhrase == Normalize(phr)
    IN  IF normPhrase = <<>> \/ d = <<>> THEN [best |-> 0, buf |-> <<>>]
        ELSE LET best == BestOf(d, QuerySelectorAll(d, Root, CandidateTags), 1, normPhrase, 0, 0)
             IN  IF best # 0
                 THEN [best |-> best,
                       buf |-> Following(d, NextElementSibling(d, best), <<best>>)]
                 ELSE [best |-> 0, buf |-> <<>>]

-----------------------------------------------------------------------------
(* The annotation documents findNoteSnippet is run on *)

NoteTexts == {<<>>, <<"a">>, <<"A", " ", " ", "b">>, <<"\n", "b", "a", "b", " ">>}

\* a block is a paragraph, a heading, or a div of two paragraphs
BlockKinds ==
    [tag : {"p"}, texts : {<<t>> : t \in NoteTexts}]
    \cup [tag : {"h3"}, texts : {<< <<"a">> >>}]
    \cup [tag : {"div"}, texts : NoteTexts \X NoteTexts]

AddBlock(d, b) ==
    IF b.tag = "div"
    THEN LET d1 == AddChild(d, Root, Node("div"))
             dv == Len(d1)
             d2 == AddChild(d1, dv, Node("p"))
             d3 == AddChild(d2, Len(d2), TextNode(b.texts[1]))
             d4 == AddChild(d3, dv, Node("p"))
         IN  AddChild(d4, Len(d4), TextNode(b.texts[2]))
    ELSE LET d1 == AddChild(d, Root, Node(b.tag))
         IN  AddChild(d1, Len(d1), TextNode(b.texts[1]))

RECURSIVE AddBlocks(_,_)
AddBlocks(d, bs) ==
    IF bs = <<>> THEN d ELSE AddBlocks(AddBlock(d, Head(bs)), Tail(bs))

\* the tree DOMParser builds under <div id="notes-root">
NoteDocs == {AddBlocks(<<Node("div")>>, bs) : bs \in SeqsUpTo(BlockKinds, MaxBlocks)}

Phrases == {<<>>, <<"a">>, <<"B", "\n", "A">>, <<"a", " ", "b">>}

NoteInit ==
    /\ ServeIdle
    /\ PipeIdle
    /\ HrefIdle
    /\ PageIdle
    /\ noteDoc \in NoteDocs \cup {<<>>}
    /\ phrase \in Phrases
    /\ snippet = NoSnippet

CallFindNoteSnippet ==
    /\ snippet = NoSnippet
    /\ snippet' = FindNoteSnippet(noteDoc, phrase)
    /\ UNCHANGED <<noteDoc, phrase>>
    /\ UNCHANGED <<pipeVars, hrefVars, pageVars, serveVars>>

NoteNext == CallFindNoteSnippet

SpecNote == NoteInit /\ [][NoteNext]_vars

-----------------------------------------------------------------------------
(* Claims about the snippet matcher *)

\* the candidate blocks whose normalized text contains the normalized phrase
Matching(d, phr) ==
    {c \in SeqToSet(QuerySelectorAll(d, Root, CandidateTags)) :
        Includes(Normalize(TextContent(d, c)), Normalize(phr))}

NormLen(d, c) == Len(Normalize(TextContent(d, c)))

\* C6: for a non-empty normalized phrase and a loaded tree, the block selected
\* is a candidate whose normalized text contains the phrase and is of minimal
\* normalized length among those that do; of two matching candidates where one's
\* text is a proper part of the other's the shorter is selected, whatever their
\* order; no block is selected only when none matches.
C6_ShortestMatch ==
    (snippet # NoSnippet /\ noteDoc # <<>> /\ Normalize(phrase) # <<>>) =>
        LET m == Matching(noteDoc, phrase)
        IN  /\ m = {} <=> snippet.best = 0
            /\ m # {} =>
                  /\ snippet.best \in m
                  /\ \A c \in m : NormLen(noteDoc, snippet.best) <= NormLen(noteDoc, c)
                  /\ \A c \in m :
                        (/\ Includes(Normalize(TextContent(noteDoc, c)),
                                     Normalize(TextContent(noteDoc, snippet.best)))
                         /\ NormLen(noteDoc, c) > NormLen(noteDoc, snippet.best))
                        => snippet.best # c

\* C6 witness: a div comes first in the document and matches, a paragraph inside
\* it matches with a shorter text, and the paragraph was selected.
C6_Witness ==
    /\ snippet # NoSnippet
    /\ snippet.best > 0
    /\ \E c \in Matching(noteDoc, phrase) :
          /\ noteDoc[c].tag = "div"
          /\ Contains(noteDoc[c].kids, snippet.best)
          /\ NormLen(noteDoc, c) > NormLen(noteDoc, snippet.best)

-----------------------------------------------------------------------------
(* What the server answers for a chapter, as the client sees it *)

\* an HTML string is a sequence of pieces <<chapter, node>>: the markup of that
\* node of the chapter's notes tree; <<c, Root>> alone is the whole notes fragment
WholeNotes(c) == << <<c, Root>> >>

Placeholder == << <<"<p>No commentary found.</p>", 0>> >>

Anchor(h) == [Node("a") EXCEPT !.href = h]

\* p1c1: <p>a <a href="#">b</a></p><p>b<a href="ada4.htm">c</a><a href="#x">d</a></p>
NotesP1C1 ==
    LET d1 == AddChild(<<Node("div")>>, Root, Node("p"))
        p1 == Len(d1)
        d2 == AddChild(d1, p1, TextNode(<<"a", " ">>))
        d3 == AddChild(d2, p1, Anchor(<<"#">>))
        d4 == AddChild(d3, Len(d3), TextNode(<<"b">>))
        d5 == AddChild(d4, Root, Node("p"))
        p2 == Len(d5)
        d6 == AddChild(d5, p2, TextNode(<<"b">>))
        d7 == AddChild(d6, p2, Anchor(<<"ada4.htm">>))
        d8 == AddChild(d7, Len(d7), TextNode(<<"c">>))
        d9 == AddChild(d8, p2, Anchor(<<"#", "x">>))
    IN  AddChild(d9, Len(d9), TextNode(<<"d">>))

\* p1c2: <p>B  a</p>
NotesP1C2 ==
    LET d1 == AddChild(<<Node("div")>>, Root, Node("p"))
    IN  AddChild(d1, Len(d1), TextNode(<<"B", " ", " ", "a">>))

\* the tree DOMParser builds from a chapter's notes fragment; p4c1 has none
NotesTree(c) ==
    CASE c = "p1c1" -> NotesP1C1
      [] c = "p1c2" -> NotesP1C2
      [] OTHER      -> <<>>

\* the anchors of a chapter's text fragment
TextAnchors(c) ==
    CASE c = "p1c1" -> << [href |-> <<"#">>, text |-> <<" ", "a">>],
                          [href |-> <<"ada11ann.htm">>, text |-> <<"z">>],
                          [href |-> <<"ada12.htm">>, text |-> <<"n">>] >>
      [] c = "p1c2" -> << [href |-> <<"#">>, text |-> <<" ">>],
                          [href |-> <<AdaOrigin, "/", "ada4.htm">>, text |-> <<"n">>],
                          [href |-> <<"foo.htm">>, text |-> <<"f">>] >>
      [] c = "p4c1" -> << [href |-> <<>>, text |-> <<"a">>],
                          [href |-> <<"x", "/", "ada11.htm", "#", "x">>, text |-> <<"n">>] >>
      [] OTHER      -> <<>>

\* a response read as the body for the chapter the select shows
DataOfSelected(c) ==
    [title |-> selectValue, textHtml |-> selectValue,
     notesHtml |-> IF NotesTree(selectValue) = <<>> THEN <<>> ELSE WholeNotes(selectValue)]

\* the body of a successful GET /api/chapter/:id
ChapterData(c) ==
    [title |-> c, textHtml |-> c,
     notesHtml |-> IF NotesTree(c) = <<>> THEN <<>> ELSE WholeNotes(c)]

\* the anchors overlayContent holds once html is its innerHTML
OverlayAnchors(html) ==
    Concat([i \in 1..Len(html) |->
        IF html[i][2] = 0 THEN <<>>
        ELSE LET d  == NotesTree(html[i][1])
                 as == QuerySelectorAll(d, html[i][2], {"a"})
             IN  [j \in 1..Len(as) |-> [href |-> d[as[j]].href, text |-> TextContent(d, as[j])]]])

-----------------------------------------------------------------------------
(* pushOverlay, renderOverlay, popOverlay, closeOverlayCompletely *)

CloseOverlayCompletely(o) ==
    [o EXCEPT !.stack = <<>>, !.visible = FALSE, !.hasStack = FALSE,
              !.content = <<>>, !.modalOpen = FALSE]

\* a renderOverlay that sets has-stack and never takes it back
RenderKeepsHasStack(o) ==
    IF o.stack = <<>> THEN CloseOverlayCompletely(o)
    ELSE [o EXCEPT !.content = o.stack[Len(o.stack)].html,
                   !.title = IF o.stack[Len(o.stack)].title = <<>> THEN <<"Commentary">>
                             ELSE o.stack[Len(o.stack)].title,
                   !.visible = TRUE,
                   !.hasStack = @ \/ Len(o.stack) > 1,
                   !.modalOpen = TRUE]

RenderOverlay(o) ==
    IF o.stack = <<>> THEN CloseOverlayCompletely(o)
    ELSE LET top == o.stack[Len(o.stack)]
         IN  [o EXCEPT !.content = top.html,
                       !.title = IF top.title = <<>> THEN <<"Commentary">> ELSE top.title,
                       !.visible = TRUE,
                       !.hasStack = Len(o.stack) > 1,
                       !.modalOpen = TRUE]

PushOverlay(o, html, title) ==
    RenderOverlay([o EXCEPT !.stack =
        Append(@, [html |-> IF html = <<>> THEN Placeholder ELSE html, title |-> title])])

\* a popOverlay that pops without rendering again
PopWithoutRender(o) ==
    IF Len(o.stack) > 1
    THEN [o EXCEPT !.stack = SubSeq(@, 1, Len(@) - 1)]
    ELSE CloseOverlayCompletely(o)

PopOverlay(o) ==
    IF Len(o.stack) > 1
    THEN RenderOverlay([o EXCEPT !.stack = SubSeq(@, 1, Len(@) - 1)])
    ELSE CloseOverlayCompletely(o)

\* the string findNoteSnippet returns: the outerHTML of the gathered blocks
SnippetHtml(nDom, phr) ==
    LET r == FindNoteSnippet(NotesTree(nDom), phr)
    IN  [i \in 1..Len(r.buf) |-> <<nDom, r.buf[i]>>]

\* an openNoteForPhrase without the fallback to the whole annotations
OpenSnippetOnly(o, nDom, nHtml, phr) ==
    IF nDom = "null" THEN PushOverlay(o, nHtml, <<"Commentary">>)
    ELSE PushOverlay(o, IF phr # <<>> THEN SnippetHtml(nDom, phr) ELSE <<>>,
                     IF phr # <<>> THEN phr ELSE <<"Commentary">>)

OpenNoteForPhrase(o, nDom, nHtml, phr) ==
    IF nDom = "null" THEN PushOverlay(o, nHtml, <<"Commentary">>)
    ELSE LET snip == IF phr # <<>> THEN SnippetHtml(nDom, phr) ELSE <<>>
             html == IF snip # <<>> THEN snip ELSE nHtml
             title == IF phr # <<>> THEN phr ELSE <<"Commentary">>
         IN  PushOverlay(o, html, title)

-----------------------------------------------------------------------------
(* The page: loadChapterList, loadChapter and the event handlers *)

Triggers == {"init", "select", "textlink", "overlaylink"}

\* a loadChapter that leaves the overlay as it is
LeaveOverlay(o) == o

\* loadChapter up to its await: the placeholder text, the overlay closed
LoadChapterOverlay(o) == CloseOverlayCompletely(o)

\* loadChapter(id) up to the await of fetchJSON: the request is out
LoadChapterBegin(o, id, trigger) ==
    /\ Len(inflight) < MaxInflight
    /\ event' = [handler |-> "loadChapter", arg |-> <<id, trigger>>,
                 before |-> overlay, text |-> textContainer]
    /\ textContainer' = [kind |-> "loading", chapter |-> ""]
    /\ overlay' = LoadChapterOverlay(o)
    /\ inflight' = Append(inflight, [chapter |-> id, trigger |-> trigger])

PageInit ==
    /\ ServeIdle
    /\ PipeIdle
    /\ HrefIdle
    /\ NoteIdle
    /\ listState = "pending"
    /\ selectValue = ""
    /\ chapterTitle = ""
    /\ textContainer = [kind |-> "initial", chapter |-> ""]
    /\ notesHtml = <<>>
    /\ notesDom = "null"
    /\ overlay = NoOverlay
    /\ inflight = <<>>
    /\ event = NoEvent

\* /api/chapters answers: the options are built and the first chapter is loaded
ChapterListArrives ==
    /\ listState = "pending"
    /\ listState' = "ok"
    /\ selectValue' = ChaptersMeta[1].id
    /\ LoadChapterBegin(overlay, ChaptersMeta[1].id, "init")
    /\ UNCHANGED <<chapterTitle, notesHtml, notesDom>>
    /\ UNCHANGED <<pipeVars, hrefVars, noteVars, serveVars>>

\* /api/chapters fails: loadChapterList rejects and the catch of init runs
ChapterListFails ==
    /\ listState = "pending"
    /\ listState' = "failed"
    /\ event' = [handler |-> "init.catch", arg |-> <<>>, before |-> overlay, text |-> textContainer]
    /\ textContainer' = [kind |-> "Failed to load chapter list.", chapter |-> ""]
    /\ UNCHANGED <<selectValue, chapterTitle, notesHtml, notesDom, overlay, inflight>>
    /\ UNCHANGED <<pipeVars, hrefVars, noteVars, serveVars>>

\* the change handler of chapterSelect
SelectChange ==
    /\ listState = "ok"
    /\ \E id \in ChapterIds :
          /\ selectValue' = id
          /\ LoadChapterBegin(overlay, id, "select")
    /\ UNCHANGED <<listState, chapterTitle, notesHtml, notesDom>>
    /\ UNCHANGED <<pipeVars, hrefVars, noteVars, serveVars>>

\* a response arrives for the i-th pending loadChapter, which runs to its end
ChapterArrives ==
    /\ \E i \in 1..Len(inflight) :
          LET data == ChapterData(inflight[i].chapter)
          IN  /\ inflight' = SubSeq(inflight, 1, i - 1) \o SubSeq(inflight, i + 1, Len(inflight))
              /\ chapterTitle' = data.title
              /\ textContainer' = [kind |-> "shown", chapter |-> data.textHtml]
              /\ notesHtml' = data.notesHtml
              /\ notesDom' = IF data.notesHtml # <<>> THEN inflight[i].chapter ELSE "null"
              /\ event' = [handler |-> "loadChapter.resume", arg |-> <<inflight[i].chapter>>,
                           before |-> overlay, text |-> textContainer]
    /\ UNCHANGED <<listState, selectValue, overlay>>
    /\ UNCHANGED <<pipeVars, hrefVars, noteVars, serveVars>>

\* the request of the i-th pending loadChapter fails: fetchJSON throws, the
\* promise rejects, and the catch the caller attached runs
ChapterFails ==
    /\ \E i \in 1..Len(inflight) :
          /\ inflight' = SubSeq(inflight, 1, i - 1) \o SubSeq(inflight, i + 1, Len(inflight))
          /\ textContainer' =
                CASE inflight[i].trigger = "select" ->
                        [kind |-> "Failed to load chapter.", chapter |-> ""]
                  [] inflight[i].trigger = "init" ->
                        [kind |-> "Failed to load chapter list.", chapter |-> ""]
                  [] OTHER -> textContainer
          /\ event' = [handler |-> "loadChapter.catch", arg |-> <<inflight[i].chapter>>,
                       before |-> overlay, text |-> textContainer]
    /\ UNCHANGED <<listState, selectValue, chapterTitle, notesHtml, notesDom, overlay>>
    /\ UNCHANGED <<pipeVars, hrefVars, noteVars, serveVars>>

ShownAnchors ==
    IF textContainer.kind = "shown" THEN SeqToSet(TextAnchors(textContainer.chapter)) ELSE {}

\* the listener wireTextLinks or wireOverlayLinks attached for chapter navigation,
\* from its chapterSelect.value = chapterId on
Navigate(w, navListener, o, trigger) ==
    /\ w.listener = navListener
    /\ selectValue' = w.chapter
    /\ LoadChapterBegin(o, w.chapter, trigger)

\* a click on an anchor of the text that wireTextLinks gave onNoteClick
ClickTextNote ==
    /\ Len(overlay.stack) < MaxDepth
    /\ \E a \in ShownAnchors :
          /\ WireTextLink(a.href).listener = "onNoteClick"
          /\ overlay' = OpenNoteForPhrase(overlay, notesDom, notesHtml, Trim(a.text))
          /\ event' = [handler |-> "onNoteClick", arg |-> Trim(a.text),
                       before |-> overlay, text |-> textContainer]
    /\ UNCHANGED <<listState, selectValue, chapterTitle, textContainer, notesHtml, notesDom, inflight>>
    /\ UNCHANGED <<pipeVars, hrefVars, noteVars, serveVars>>

\* a click on an anchor of the text that wireTextLinks gave the navigation listener
ClickTextNav ==
    /\ \E a \in ShownAnchors :
          Navigate(WireTextLink(a.href), "loadChapter", overlay, "textlink")
    /\ UNCHANGED <<listState, chapterTitle, notesHtml, notesDom>>
    /\ UNCHANGED <<pipeVars, hrefVars, noteVars, serveVars>>

\* a click on an anchor of the overlay that wireOverlayLinks gave onOverlayNoteClick
ClickOverlayNote ==
    /\ overlay.visible
    /\ Len(overlay.stack) < MaxDepth
    /\ \E a \in SeqToSet(OverlayAnchors(overlay.content)) :
          /\ WireOverlayLink(a.href).listener = "onOverlayNoteClick"
          /\ overlay' = OpenNoteForPhrase(overlay, notesDom, notesHtml, Trim(a.text))
          /\ event' = [handler |-> "onOverlayNoteClick", arg |-> Trim(a.text),
                       before |-> overlay, text |-> textContainer]
    /\ UNCHANGED <<listState, selectValue, chapterTitle, textContainer, notesHtml, notesDom, inflight>>
    /\ UNCHANGED <<pipeVars, hrefVars, noteVars, serveVars>>

\* a click on an anchor of the overlay that wireOverlayLinks gave the navigation
\* listener: closeOverlayCompletely, then loadChapter
ClickOverlayNav ==
    /\ overlay.visible
    /\ \E a \in SeqToSet(OverlayAnchors(overlay.content)) :
          Navigate(WireOverlayLink(a.href), "closeAndLoadChapter",
                   CloseOverlayCompletely(overlay), "overlaylink")
    /\ UNCHANGED <<listState, chapterTitle, notesHtml, notesDom>>
    /\ UNCHANGED <<pipeVars, hrefVars, noteVars, serveVars>>

\* the click handler of overlayBack
ClickBack ==
    /\ overlay' = PopOverlay(overlay)
    /\ event' = [handler |-> "overlayBack.click", arg |-> <<>>,
                 before |-> overlay, text |-> textContainer]
    /\ UNCHANGED <<listState, selectValue, chapterTitle, textContainer, notesHtml, notesDom, inflight>>
    /\ UNCHANGED <<pipeVars, hrefVars, noteVars, serveVars>>

\* the click handler of overlayClose
ClickClose ==
    /\ overlay' = CloseOverlayCompletely(overlay)
    /\ event' = [handler |-> "overlayClose.click", arg |-> <<>>,
                 before |-> overlay, text |-> textContainer]
    /\ UNCHANGED <<listState, selectValue, chapterTitle, textContainer, notesHtml, notesDom, inflight>>
    /\ UNCHANGED <<pipeVars, hrefVars, noteVars, serveVars>>

\* a click on the backdrop: e.target === overlay
ClickBackdrop ==
    /\ overlay.visible
    /\ overlay' = CloseOverlayCompletely(overlay)
    /\ event' = [handler |-> "overlay.click", arg |-> <<>>,
                 before |-> overlay, text |-> textContainer]
    /\ UNCHANGED <<listState, selectValue, chapterTitle, textContainer, notesHtml, notesDom, inflight>>
    /\ UNCHANGED <<pipeVars, hrefVars, noteVars, serveVars>>

Next ==
    \/ ChapterListArrives
    \/ ChapterListFails
    \/ SelectChange
    \/ ChapterArrives
    \/ ChapterFails
    \/ ClickTextNote
    \/ ClickTextNav
    \/ ClickOverlayNote
    \/ ClickOverlayNav
    \/ ClickBack
    \/ ClickClose
    \/ ClickBackdrop

Init == PageInit

Spec == Init /\ [][Next]_vars

-----------------------------------------------------------------------------
(* Claims about the overlay and loadChapter *)

Depth(o) == Len(o.stack)

NoteClicked == event.handler \in {"onNoteClick", "onOverlayNoteClick"}

\* the blocks of the loaded annotations that match the phrase clicked
MatchingNotes(phr) ==
    IF notesDom = "null" \/ phr = <<>> THEN {} ELSE Matching(NotesTree(notesDom), phr)

\* C7: once a note click has run openNoteForPhrase, the stack is the stack before
\* it plus exactly one entry, whose html is never empty and is: the placeholder
\* when no annotations are loaded; a snippet that starts with a matching block
\* when annotations are loaded and a block matches the phrase; the whole
\* annotations document when they are loaded and the phrase is empty or no block
\* matches.
C7_PushesOneEntry ==
    NoteClicked =>
        /\ Depth(overlay) = Depth(event.before) + 1
        /\ SubSeq(overlay.stack, 1, Depth(event.before)) = event.before.stack
        /\ LET e == overlay.stack[Depth(overlay)]
               m == MatchingNotes(event.arg)
           IN  /\ e.html # <<>>
               /\ notesDom = "null" => e.html = Placeholder
               /\ (notesDom # "null" /\ m # {}) =>
                     /\ e.html # WholeNotes(notesDom)
                     /\ e.html[1] \in {<<notesDom, c>> : c \in m}
               /\ (notesDom # "null" /\ m = {}) => e.html = WholeNotes(notesDom)

\* C7 witness: three note clicks in a row pushed the whole annotations (no block
\* matched), then a snippet, then, the chapter shown by then having no
\* annotations, the placeholder.
C7_Witness ==
    /\ NoteClicked
    /\ Depth(overlay) = 3
    /\ overlay.stack[1].html = WholeNotes("p1c1")
    /\ overlay.stack[2].html \notin {WholeNotes("p1c1"), Placeholder}
    /\ overlay.stack[3].html = Placeholder
    /\ notesDom = "null"

\* C8: the overlay is visible exactly when the stack holds an entry, background
\* scrolling is locked exactly while the overlay is visible, and has-stack is
\* set exactly when the stack holds more than one entry.
C8_OverlayFlags ==
    /\ overlay.visible <=> Depth(overlay) >= 1
    /\ overlay.modalOpen <=> overlay.visible
    /\ overlay.hasStack <=> Depth(overlay) > 1

\* C8 witness: a pop brought the stack from two entries to one, so has-stack had
\* to be taken back while the overlay stayed visible.
C8_Witness ==
    /\ event.handler = "overlayBack.click"
    /\ event.before.hasStack
    /\ Depth(overlay) = 1
    /\ overlay.visible

\* C9: once popOverlay has run on a stack of n > 1 entries, the stack is the
\* first n-1 of them, in order, and the overlay shows the last of these; on a
\* stack of one entry or none, the stack is empty and the overlay hidden. With
\* n = 2 exactly the first entry is left, visible, has-stack unset.
C9_Pop ==
    event.handler = "overlayBack.click" =>
        LET n == Depth(event.before)
        IN  /\ n > 1 =>
                  /\ overlay.stack = SubSeq(event.before.stack, 1, n - 1)
                  /\ overlay.content = event.before.stack[n - 1].html
                  /\ overlay.title = event.before.stack[n - 1].title
                  /\ overlay.visible
            /\ n <= 1 => (overlay.stack = <<>> /\ ~overlay.visible /\ overlay.content = <<>>)
            /\ n = 2 => (overlay.stack = <<event.before.stack[1]>> /\ ~overlay.hasStack)

\* C9 witness: popOverlay ran on two entries that differ and left the first.
C9_Witness ==
    /\ event.handler = "overlayBack.click"
    /\ Depth(event.before) = 2
    /\ event.before.stack[1] # event.before.stack[2]
    /\ overlay.stack = <<event.before.stack[1]>>

\* C10: when loadChapter has reached its request, whoever called it and whatever
\* the stack held, the stack is empty, the overlay is hidden and its content
\* cleared.
C10_ClosedBeforeRequest ==
    event.handler = "loadChapter" =>
        /\ event.arg[2] \in Triggers
        /\ inflight # <<>>
        /\ inflight[Len(inflight)] = [chapter |-> event.arg[1], trigger |-> event.arg[2]]
        /\ overlay.stack = <<>>
        /\ ~overlay.visible
        /\ overlay.content = <<>>

\* C10 witness: a text link loaded a chapter while the stack held two entries.
C10_Witness ==
    /\ event.handler = "loadChapter"
    /\ event.arg[2] = "textlink"
    /\ Depth(event.before) = 2
    /\ Depth(overlay) = 0

\* the chapters whose annotations the overlay's entries were built from
StackChapters ==
    UNION {{overlay.stack[i].html[j][1] : j \in 1..Len(overlay.stack[i].html)} :
              i \in 1..Depth(overlay)} \ {Placeholder[1][1]}

\* C11 as stated: when a chapter response has just replaced the displayed text
\* and the annotations tree the overlay stack is empty, and the overlay never
\* holds an entry built from the annotations of a chapter other than the one
\* displayed.
C11_AsStated ==
    /\ event.handler = "loadChapter.resume" => overlay.stack = <<>>
    /\ textContainer.kind = "shown" => StackChapters \subseteq {textContainer.chapter}

\* the plain-text messages the page shows for a failed load
FailureMessages == {"Failed to load chapter.", "Failed to load chapter list."}

\* C16 as stated: when a load of the chapter list or of a chapter has failed,
\* whatever triggered it (initial load, selection change, link in the text, link
\* in the overlay), the text area shows a plain-text failure message; it is
\* not left showing the loading placeholder.
C16_AsStated ==
    event.handler \in {"init.catch", "loadChapter.catch"} =>
        /\ textContainer.kind \in FailureMessages
        /\ textContainer.kind # "loading"

-----------------------------------------------------------------------------
(* The pipeline of GET /api/chapter/:id on one root *)

PipeInit ==
    /\ ServeIdle
    /\ HrefIdle
    /\ NoteIdle
    /\ PageIdle
    /\ dom \in Pages
    /\ domIn = <<>>
    /\ pc = "clean"
    /\ tables = <<>>
    /\ ti = 0
    /\ last = NoVisit
    /\ swapped = <<>>

DoStripLegacyStyling ==
    /\ pc = "clean"
    /\ dom' = StripLegacyStyling(dom, Root)
    /\ pc' = "br"
    /\ UNCHANGED <<domIn, tables, ti, last, swapped>>
    /\ UNCHANGED <<hrefVars, noteVars, pageVars, serveVars>>

DoStripLineBreaks ==
    /\ pc = "br"
    /\ dom' = StripLineBreaks(dom, Root)
    /\ pc' = "flatten"
    /\ UNCHANGED <<domIn, tables, ti, last, swapped>>
    /\ UNCHANGED <<hrefVars, noteVars, pageVars, serveVars>>

\* const tables = Array.from(root.querySelectorAll('table'))
FlattenBegin ==
    /\ pc = "flatten"
    /\ tables' = QuerySelectorAll(dom, Root, {"table"})
    /\ domIn' = dom
    /\ ti' = 0
    /\ pc' = "tables"
    /\ UNCHANGED <<dom, last, swapped>>
    /\ UNCHANGED <<hrefVars, noteVars, pageVars, serveVars>>

\* one visit of tables.forEach
FlattenVisit ==
    /\ pc = "tables"
    /\ ti < Len(tables)
    /\ dom' = FlattenTable(dom, tables[ti + 1])
    /\ last' = [table |-> tables[ti + 1], pre |-> dom,
                wrapper |-> IF Qualifies(dom, tables[ti + 1]) THEN Len(dom) + 1 ELSE 0]
    /\ swapped' = IF Qualifies(dom, tables[ti + 1])
                  THEN Append(swapped, <<tables[ti + 1], Len(dom) + 1>>)
                  ELSE swapped
    /\ ti' = ti + 1
    /\ UNCHANGED <<domIn, pc, tables>>
    /\ UNCHANGED <<hrefVars, noteVars, pageVars, serveVars>>

FlattenEnd ==
    /\ pc = "tables"
    /\ ti = Len(tables)
    /\ pc' = "img"
    /\ UNCHANGED <<dom, domIn, tables, ti, last, swapped>>
    /\ UNCHANGED <<hrefVars, noteVars, pageVars, serveVars>>

DoFixImages ==
    /\ pc = "img"
    /\ dom' = FixImages(dom, Root)
    /\ pc' = "done"
    /\ UNCHANGED <<domIn, tables, ti, last, swapped>>
    /\ UNCHANGED <<hrefVars, noteVars, pageVars, serveVars>>

PipeNext ==
    \/ DoStripLegacyStyling
    \/ DoStripLineBreaks
    \/ FlattenBegin
    \/ FlattenVisit
    \/ FlattenEnd
    \/ DoFixImages

SpecPipe == PipeInit /\ [][PipeNext]_vars

-----------------------------------------------------------------------------
(* Claims about the pipeline *)

FlattenDone == pc \in {"img", "done"}

ReplacedTables == {swapped[i][1] : i \in 1..Len(swapped)}

WrapperOf(t) == swapped[CHOOSE i \in 1..Len(swapped) : swapped[i][1] = t][2]

Subtree(d, n) == {n} \cup SeqToSet(Descendants(d, n))

\* a row has exactly two cells, both td
TwoTdRow(d, r) ==
    /\ Len(Children(d, r)) = 2
    /\ \A i \in 1..2 : d[Children(d, r)[i]].tag = "td"

\* the rows of t itself: the tr below t that lie in no table nested in t
OwnRows(d, t) ==
    {r \in Subtree(d, t) :
        /\ d[r].tag = "tr"
        /\ ~\E u \in Subtree(d, t) \ {t} : d[u].tag = "table" /\ r \in Subtree(d, u)}

\* all the tr below t, those of the tables nested in t included
AllRows(d, t) == {r \in Subtree(d, t) : d[r].tag = "tr"}

\* the kids of every node of t's subtree are what they were
Untouched(t) ==
    \A x \in Subtree(domIn, t) : dom[x].kids = domIn[x].kids

\* the same, but for the nested tables that were themselves replaced: such a
\* table has its wrapper where it stood, and what lies inside it is not compared
UntouchedButNested(t) ==
    \A x \in Subtree(domIn, t) :
        (\A u \in ReplacedTables : x \notin Subtree(domIn, u)) =>
            /\ Len(dom[x].kids) = Len(domIn[x].kids)
            /\ \A j \in 1..Len(domIn[x].kids) :
                   LET k == domIn[x].kids[j]
                   IN  dom[x].kids[j] = IF k \in ReplacedTables THEN WrapperOf(k) ELSE k

\* C1 as stated: a table is replaced if and only if every one of its rows has
\* exactly two td cells, and a table with a row that has not is left structurally
\* unchanged, descendants included, also under nesting.
C1_AsStated ==
    FlattenDone =>
        \A i \in 1..Len(tables) :
            LET t == tables[i]
            IN  /\ (t \in ReplacedTables) <=> (\A r \in OwnRows(domIn, t) : TwoTdRow(domIn, r))
                /\ (\E r \in OwnRows(domIn, t) : ~TwoTdRow(domIn, r)) => Untouched(t)

\* C1 amended: a table is replaced if and only if it has at least one tr below it
\* (rows of nested tables included) and every such tr has exactly two element
\* children, both td; a table that is not replaced keeps its subtree, except that
\* each table nested in it that qualifies is replaced by its own flowing block.
C1_Flattened ==
    FlattenDone =>
        \A i \in 1..Len(tables) :
            LET t == tables[i]
            IN  /\ (t \in ReplacedTables) <=>
                      /\ AllRows(domIn, t) # {}
                      /\ \A r \in AllRows(domIn, t) : TwoTdRow(domIn, r)
                /\ t \notin ReplacedTables => UntouchedButNested(t)
                /\ t \in ReplacedTables =>
                      /\ ~HasParent(dom, t)
                      /\ dom[WrapperOf(t)].tag = "p"

\* C1 witness: flattening is over, a table with a three-cell row was kept and a
\* two-column table nested in its subtree was replaced.
C1_Witness ==
    /\ FlattenDone
    /\ \E t \in SeqToSet(tables) \ ReplacedTables :
          /\ \E r \in OwnRows(domIn, t) : Len(Children(domIn, r)) = 3
          /\ \E u \in ReplacedTables : u \in Subtree(domIn, t)

\* what the wrapper holds, the nodes created by the flattener named by what they are
Emitted(d, pre, w) ==
    [j \in 1..Len(d[w].kids) |->
        LET k == d[w].kids[j]
        IN  IF k <= Len(pre) THEN <<"node", k>>
            ELSE IF d[k].tag = "br" THEN <<"br", 0>>
            ELSE IF d[k].tag = "#text" /\ d[k].text = <<" ">> THEN <<"space", 0>>
            ELSE <<"other", k>>]

Refs(ks) == [j \in 1..Len(ks) |-> <<"node", ks[j]>>]

\* the block row number idx of a table contributes, from the row's own two cells
RowBlock(d, r, idx) ==
    LET marker  == Children(d, r)[1]
        content == Children(d, r)[2]
        hasText == Trim(TextContent(d, marker)) # <<>>
    IN  IF idx = 1
        THEN (IF hasText THEN Refs(d[marker].kids) \o <<<<"br", 0>>>> ELSE <<>>)
             \o Refs(d[content].kids)
        ELSE IF hasText
        THEN <<<<"br", 0>>>> \o Refs(d[marker].kids) \o <<<<"br", 0>>>> \o Refs(d[content].kids)
        ELSE <<<<"space", 0>>>> \o Refs(d[content].kids)

ExpectedBlock(d, t) ==
    LET trs == TableRows(d, t)
    IN  Concat([i \in 1..Len(trs) |-> RowBlock(d, trs[i], i)])

\* C2 as stated: the block that replaces a qualifying table is the in-row-order
\* concatenation of, for row 0, marker content and a line break when the marker
\* has text, then the content cell's contents; for a later row with marker text,
\* line break, marker content, line break, content; for a later row without,
\* one space and the content. Nothing else is emitted.
C2_AsStated ==
    last.wrapper # 0 => Emitted(dom, last.pre, last.wrapper) = ExpectedBlock(last.pre, last.table)

\* C3 as stated: after the whole pipeline no element of the fragment has an
\* inline style attribute and none is a <style> or <link> element.
C3_AsStated ==
    pc = "done" =>
        \A n \in SeqToSet(Descendants(dom, Root)) :
            dom[n].tag \notin {"style", "link"} /\ dom[n].style = "none"

\* C3 amended: after the whole pipeline the fragment holds no <style> or <link>
\* element and no style attribute carried over from the upstream page: the only
\* style attributes are the responsive ones the image normalizer sets, and those
\* sit on exactly the img elements that have a non-empty src.
C3_NoLegacyStyle ==
    pc = "done" =>
        \A n \in SeqToSet(Descendants(dom, Root)) :
            /\ dom[n].tag \notin {"style", "link"}
            /\ dom[n].style \in {"none", "responsive"}
            /\ dom[n].style = "responsive" <=>
                   (dom[n].tag = "img" /\ dom[n].src \notin {"none", "empty"})

\* C3 witness: the pipeline is over on a page that had <style>, <link> and a
\* styled image in a flattened table's cell, and that image is now responsive.
C3_Witness ==
    /\ pc = "done"
    /\ \E n \in SeqToSet(Descendants(domIn, Root)) : domIn[n].tag = "span"
    /\ \E w \in {swapped[i][2] : i \in 1..Len(swapped)} :
          \E n \in SeqToSet(dom[w].kids) : dom[n].tag = "img" /\ dom[n].style = "responsive"

-----------------------------------------------------------------------------
(* The server's catalog *)

PartCount == 5

PART_CHAPTER_COUNTS ==
    [part \in 1..PartCount |->
        CASE part = 1 -> 43
          [] part = 2 -> 11
          [] part = 3 -> 8
          [] part = 4 -> 1
          [] OTHER    -> 6]

HasAnnotationPage(part, chapter) ==
    \/ part = 1 /\ chapter >= 1 /\ chapter <= 43
    \/ part = 2 /\ chapter >= 1 /\ chapter <= 11
    \/ part = 3 /\ chapter >= 1 /\ chapter <= 2

\* a textId that is always `${part}${ch}`
TextIdPlain(part, ch) == ToString(part) \o ToString(ch)

\* the file id in the upstream URLs
TextId(part, ch) == IF part = 4 THEN "4" ELSE ToString(part) \o ToString(ch)

\* the descriptor the inner loop body pushes
Descriptor(part, ch) ==
    [id       |-> "p" \o ToString(part) \o "c" \o ToString(ch),
     part     |-> part,
     chapter  |-> ch,
     textUrl  |-> <<AdaOrigin, "/", "ada" \o TextId(part, ch) \o ".htm">>,
     notesUrl |-> IF HasAnnotationPage(part, ch)
                  THEN <<AdaOrigin, "/", "ada" \o TextId(part, ch) \o "ann.htm">>
                  ELSE Null,
     title    |-> IF part = 4 THEN "Part 4"
                  ELSE "Part " \o ToString(part) \o ", Chapter " \o ToString(ch)]

\* the inner for loop of one part: its descriptors, in chapter order
PartChapters(part) == [ch \in 1..PART_CHAPTER_COUNTS[part] |-> Descriptor(part, ch)]

\* the outer for loop, from part on
RECURSIVE BuildChaptersFrom(_,_)
BuildChaptersFrom(part, chapters) ==
    IF part > PartCount THEN chapters
    ELSE BuildChaptersFrom(part + 1, chapters \o PartChapters(part))

BuildChapters == BuildChaptersFrom(1, <<>>)

CHAPTERS == BuildChapters

\* the catalog of the single-chapter revision
SingleChapters ==
    << [id       |-> "p1c1",
        title    |-> "Part 1, Chapter 1",
        textUrl  |-> <<AdaOrigin, "/", "ada11.htm">>,
        notesUrl |-> <<AdaOrigin, "/", "ada11ann.htm">>] >>

Undefined == [id |-> "(undefined)"]

\* CHAPTERS.find(ch => ch.id === id)
GetChapter(chapters, id) ==
    IF \E i \in 1..Len(chapters) : chapters[i].id = id
    THEN chapters[CHOOSE i \in 1..Len(chapters) :
                     /\ chapters[i].id = id
                     /\ \A j \in 1..(i - 1) : chapters[j].id # id]
    ELSE Undefined

-----------------------------------------------------------------------------
(* GET /api/chapter/:id and GET /api/ref/:file, one request *)

\* how a fetch promise settles: a success status, another status, a rejection
FetchOutcomes == {"ok", "status", "error"}

\* how a text() promise settles
BodyOutcomes == {"ok", "error"}

Fetch(url) == [url |-> url, state |-> "pending", body |-> "none"]

Reply(status, body) == [status |-> status, body |-> body]

Catalog(rev) == IF rev = "catalog" THEN CHAPTERS ELSE SingleChapters

\* the descriptor getChapter(req.params.id) returned
Chapter == GetChapter(Catalog(revision), request.id)

\* res.json({id, title, textHtml, notesHtml})
ChapterBody(chapter, notes) ==
    [id |-> chapter.id, title |-> chapter.title, textHtml |-> "textRoot.innerHTML",
     notesHtml |-> notes]

\* the tokens of a file name: single characters, and three-letter runs
NameTokens == {"x", "Z", "7", "_", "-", "htm", "HTM", "php"}

FileTokens == NameTokens \cup {".", "/", "%"}

\* the length of the longest prefix of file made of [0-9A-Za-z_-]
RECURSIVE NameRun(_)
NameRun(file) ==
    IF file # <<>> /\ Head(file) \in NameTokens THEN 1 + NameRun(Tail(file)) ELSE 0

\* the test with its dot left unescaped: any one character before htm
TestAnyDot(file) ==
    /\ NameRun(file) >= 1
    /\ Len(file) = NameRun(file) + 2
    /\ file[NameRun(file) + 1] \in {".", "/", "%"}
    /\ file[NameRun(file) + 2] \in {"htm", "HTM"}

\* /^[0-9A-Za-z_-]+\.htm$/i.test(file)
SafeFileTest(file) ==
    /\ NameRun(file) >= 1
    /\ Len(file) = NameRun(file) + 2
    /\ file[NameRun(file) + 1] = "."
    /\ file[NameRun(file) + 2] \in {"htm", "HTM"}

ChapterParams ==
    {CHAPTERS[i].id : i \in 1..Len(CHAPTERS)} \cup {"p4c2", "p1c44", "p6c1", "P1C1", "1"}

Requests ==
    {[route |-> "chapter", id |-> id, file |-> <<>>] : id \in ChapterParams}
        \cup {[route |-> "ref", id |-> "", file |-> f] : f \in SeqsUpTo(FileTokens, MaxFileLen)}

ServeInit ==
    /\ PipeIdle
    /\ HrefIdle
    /\ NoteIdle
    /\ PageIdle
    /\ request \in Requests
    /\ revision \in IF request.route = "ref" THEN {"catalog"} ELSE {"catalog", "single"}
    /\ stage = "received"
    /\ fetches = <<>>
    /\ responses = <<>>

Send(status, body) ==
    /\ responses' = Append(responses, Reply(status, body))
    /\ stage' = "done"

Others == UNCHANGED <<pipeVars, hrefVars, noteVars, pageVars, revision, request>>

\* the catalog revision, up to its first await
ChapterReceived ==
    /\ stage = "received" /\ request.route = "chapter" /\ revision = "catalog"
    /\ IF Chapter = Undefined
       THEN Send(404, "Unknown chapter id") /\ UNCHANGED fetches
       ELSE fetches' = <<Fetch(Chapter.textUrl)>> /\ stage' = "awaitText" /\ UNCHANGED responses
    /\ Others

\* await fetch(chapter.textUrl) settles
TextFetchSettles ==
    /\ stage = "awaitText"
    /\ \E o \in FetchOutcomes :
          /\ fetches' = [fetches EXCEPT ![1].state = o,
                                        ![1].body = IF o = "ok" THEN "pending" ELSE "none"]
          /\ CASE o = "error"  -> Send(500, "Server error")
               [] o = "status" -> Send(502, "Failed to fetch text page")
               [] OTHER        -> stage' = "awaitTextBody" /\ UNCHANGED responses
    /\ Others

\* await textResp.text() settles; the notes fetch is issued when there is a notesUrl
TextBodySettles ==
    /\ stage = "awaitTextBody"
    /\ \E o \in BodyOutcomes :
          CASE o = "error" ->
                  /\ fetches' = [fetches EXCEPT ![1].body = o]
                  /\ Send(500, "Server error")
            [] o = "ok" /\ Chapter.notesUrl # Null ->
                  /\ fetches' = Append([fetches EXCEPT ![1].body = o], Fetch(Chapter.notesUrl))
                  /\ stage' = "awaitNotes"
                  /\ UNCHANGED responses
            [] OTHER ->
                  /\ fetches' = [fetches EXCEPT ![1].body = o]
                  /\ Send(200, ChapterBody(Chapter, ""))
    /\ Others

\* await fetch(chapter.notesUrl) settles
NotesFetchSettles ==
    /\ stage = "awaitNotes"
    /\ \E o \in FetchOutcomes :
          /\ fetches' = [fetches EXCEPT ![2].state = o,
                                        ![2].body = IF o = "ok" THEN "pending" ELSE "none"]
          /\ CASE o = "error"  -> Send(500, "Server error")
               [] o = "status" -> Send(502, "Failed to fetch notes page")
               [] OTHER        -> stage' = "awaitNotesBody" /\ UNCHANGED responses
    /\ Others

\* await notesResp.text() settles, and the rest of the handler runs
NotesBodySettles ==
    /\ stage = "awaitNotesBody"
    /\ \E o \in BodyOutcomes :
          /\ fetches' = [fetches EXCEPT ![2].body = o]
          /\ IF o = "error" THEN Send(500, "Server error")
             ELSE Send(200, ChapterBody(Chapter, "notesRoot.innerHTML"))
    /\ Others

\* the single-chapter revision, up to its first await: both fetches are issued
AllReceived ==
    /\ stage = "received" /\ request.route = "chapter" /\ revision = "single"
    /\ IF Chapter = Undefined
       THEN Send(404, "Unknown chapter id") /\ UNCHANGED fetches
       ELSE /\ fetches' = <<Fetch(Chapter.textUrl), Fetch(Chapter.notesUrl)>>
            /\ stage' = "awaitAll"
            /\ UNCHANGED responses
    /\ Others

Pending(fs) == {k \in 1..Len(fs) : fs[k].state = "pending"}

BodyPending(fs) == {k \in 1..Len(fs) : fs[k].body = "pending"}

\* one of the two fetches settles: Promise.all rejects with the first rejection
\* and fulfils with the last fulfilment; a fetch that settles after the
\* rejection changes nothing
AllFetchSettles ==
    /\ revision = "single"
    /\ stage \in {"awaitAll", "done"}
    /\ \E k \in Pending(fetches), o \in FetchOutcomes :
          LET fs == [fetches EXCEPT ![k].state = o]
          IN  CASE stage = "done" ->
                      /\ fetches' = fs
                      /\ UNCHANGED <<stage, responses>>
                [] o = "error" ->
                      /\ fetches' = fs
                      /\ Send(500, "Server error")
                [] Pending(fs) # {} ->
                      /\ fetches' = fs
                      /\ UNCHANGED <<stage, responses>>
                [] \E j \in 1..Len(fs) : fs[j].state = "status" ->
                      /\ fetches' = fs
                      /\ Send(502, "Failed to fetch source pages")
                [] OTHER ->
                      /\ fetches' = [j \in 1..Len(fs) |-> [fs[j] EXCEPT !.body = "pending"]]
                      /\ stage' = "awaitBodies"
                      /\ UNCHANGED responses
    /\ Others

\* one of the two text() promises settles, under the second Promise.all
AllBodySettles ==
    /\ revision = "single"
    /\ stage \in {"awaitBodies", "done"}
    /\ \E k \in BodyPending(fetches), o \in BodyOutcomes :
          LET fs == [fetches EXCEPT ![k].body = o]
          IN  /\ fetches' = fs
              /\ CASE stage = "done"        -> UNCHANGED <<stage, responses>>
                   [] o = "error"           -> Send(500, "Server error")
                   [] BodyPending(fs) # {}  -> UNCHANGED <<stage, responses>>
                   [] OTHER -> Send(200, ChapterBody(Chapter, "notesRoot.innerHTML"))
    /\ Others

\* GET /api/ref/:file up to its first await
RefReceived ==
    /\ stage = "received" /\ request.route = "ref"
    /\ IF ~SafeFileTest(request.file)
       THEN Send(400, "Invalid reference file") /\ UNCHANGED fetches
       ELSE /\ fetches' = <<Fetch(<<AdaOrigin, "/">> \o request.file)>>
            /\ stage' = "awaitRef"
            /\ UNCHANGED responses
    /\ Others

\* await fetch(url) settles
RefFetchSettles ==
    /\ stage = "awaitRef"
    /\ \E o \in FetchOutcomes :
          /\ fetches' = [fetches EXCEPT ![1].state = o,
                                        ![1].body = IF o = "ok" THEN "pending" ELSE "none"]
          /\ CASE o = "error"  -> Send(500, "Server error")
               [] o = "status" -> Send(502, "Failed to fetch reference page")
               [] OTHER        -> stage' = "awaitRefBody" /\ UNCHANGED responses
    /\ Others

\* await resp.text() settles, and the rest of the handler runs
RefBodySettles ==
    /\ stage = "awaitRefBody"
    /\ \E o \in BodyOutcomes :
          /\ fetches' = [fetches EXCEPT ![1].body = o]
          /\ IF o = "error" THEN Send(500, "Server error")
             ELSE Send(200, [title |-> "title", html |-> "root.innerHTML"])
    /\ Others

ServeNext ==
    \/ ChapterReceived
    \/ TextFetchSettles
    \/ TextBodySettles
    \/ NotesFetchSettles
    \/ NotesBodySettles
    \/ AllReceived
    \/ AllFetchSettles
    \/ AllBodySettles
    \/ RefReceived
    \/ RefFetchSettles
    \/ RefBodySettles

SpecServe == ServeInit /\ [][ServeNext]_vars

-----------------------------------------------------------------------------
(* The chapter endpoint's responses *)

ChapterDone == request.route = "chapter" /\ stage = "done"

\* the fetches that failed: a non-success status, or a network error
Failed(fs) == {k \in 1..Len(fs) : fs[k].state \in {"status", "error"}}

\* the body of a success: the four fields, for the requested chapter
SuccessBody(b) ==
    /\ DOMAIN b = {"id", "title", "textHtml", "notesHtml"}
    /\ b.id = request.id
    /\ b.title = Chapter.title

\* C12 as stated: a chapter request gets exactly one response: 404 for an id
\* outside the catalog, with no upstream fetch; 502 when an upstream fetch
\* failed, by a non-success status or by a network error; 500 only when no
\* fetch failed; and otherwise the success body with its four fields, every
\* fetch it needed having succeeded.
C12_AsStated ==
    /\ request.route = "chapter" => Len(responses) <= 1
    /\ ChapterDone =>
          /\ Len(responses) = 1
          /\ Chapter = Undefined <=> responses[1].status = 404
          /\ Chapter = Undefined => fetches = <<>>
          /\ (Chapter # Undefined /\ Failed(fetches) # {}) => responses[1].status = 502
          /\ responses[1].status = 500 => Failed(fetches) = {}
          /\ responses[1].status \in {200, 404, 500, 502}
          /\ responses[1].status = 200 =>
                /\ SuccessBody(responses[1].body)
                /\ \A k \in 1..Len(fetches) : fetches[k].state = "ok" /\ fetches[k].body = "ok"

\* C13 as stated: for a chapter with a notes URL the text fetch and the notes
\* fetch run concurrently: as soon as one fetch is issued both are, so the notes
\* fetch is started even when the text fetch fails, and a response is sent only
\* once both have completed; for a chapter without a notes URL only the text
\* fetch is made and the success body's notesHtml is the empty string.
C13_AsStated ==
    (request.route = "chapter" /\ Chapter # Undefined) =>
        /\ (Chapter.notesUrl # Null /\ fetches # <<>>) =>
              /\ Len(fetches) = 2
              /\ fetches[1].url = Chapter.textUrl
              /\ fetches[2].url = Chapter.notesUrl
        /\ (responses # <<>> /\ fetches # <<>>) => Pending(fetches) = {}
        /\ Chapter.notesUrl = Null =>
              /\ Len(fetches) <= 1
              /\ \A k \in 1..Len(responses) :
                    responses[k].status = 200 => responses[k].body.notesHtml = ""

-----------------------------------------------------------------------------
(* The reference endpoint's file names *)

\* a name made only of letters, digits, underscore and hyphen, then .htm
SafeName(file) ==
    \E n \in 1..Len(file) :
        /\ Len(file) = n + 2
        /\ \A i \in 1..n : file[i] \in NameTokens
        /\ file[n + 1] = "."
        /\ file[n + 2] \in {"htm", "HTM"}

\* C14: a reference request whose file is not a safe name is answered 400 and
\* issues no upstream request; every upstream URL a reference request fetches
\* is the source host base followed by the requested, safe, name.
C14_SafeNames ==
    request.route = "ref" =>
        /\ (~SafeName(request.file) /\ stage # "received") =>
              /\ fetches = <<>>
              /\ Len(responses) = 1
              /\ responses[1].status = 400
        /\ \A k \in 1..Len(fetches) :
              /\ SafeName(request.file)
              /\ fetches[k].url = <<AdaOrigin, "/">> \o request.file

\* C14 witness: a request for a name with a slash in it, ending in .htm, has
\* been answered 400 with no fetch issued.
C14_Witness ==
    /\ request.route = "ref"
    /\ request.file = <<"x", "/", "htm">>
    /\ stage = "done"
    /\ responses[1].status = 400
    /\ fetches = <<>>

-----------------------------------------------------------------------------
(* The catalog buildChapters yields *)

\* the pair (part, chapter) of d comes before that of e
Before(d, e) == d.part < e.part \/ (d.part = e.part /\ d.chapter < e.chapter)

\* the token of a descriptor's upstream file names
UrlToken(d) ==
    IF d.part = 4 THEN "4" ELSE ToString(d.part) \o ToString(d.chapter)

\* what the claim says of a catalog
CatalogAsClaimed(chapters) ==
    /\ Len(chapters) = 43 + 11 + 8 + 1 + 6
    /\ Len(chapters) = 69
    /\ \A i, j \in 1..Len(chapters) :
          i < j => Before(chapters[i], chapters[j]) /\ chapters[i].id # chapters[j].id
    /\ \A i \in 1..Len(chapters) :
          /\ chapters[i].id =
                "p" \o ToString(chapters[i].part) \o "c" \o ToString(chapters[i].chapter)
          /\ chapters[i].textUrl[3] = "ada" \o UrlToken(chapters[i]) \o ".htm"
          /\ chapters[i].notesUrl # Null <=>
                HasAnnotationPage(chapters[i].part, chapters[i].chapter)
    /\ Cardinality({i \in 1..Len(chapters) : chapters[i].part = 4}) = 1
    /\ \A i \in 1..Len(chapters) :
          chapters[i].part = 4 =>
              /\ chapters[i].textUrl[Len(chapters[i].textUrl)] = "ada4.htm"
              /\ chapters[i].notesUrl = Null
              /\ chapters[i].title = "Part 4"

\* C15: the catalog the server answers from has exactly 69 descriptors, ordered
\* by part then chapter, with distinct ids p{part}c{chapter}; the text URL token
\* is "4" for part 4 and part and chapter concatenated otherwise; part 4 has one
\* descriptor, with textUrl ending in ada4.htm, notesUrl null and title "Part 4";
\* notesUrl is non-null exactly where hasAnnotationPage accepts the pair.
C15_Catalog == revision = "catalog" => CatalogAsClaimed(Catalog(revision))

\* C15 witness: the part 4 chapter was requested, its text was fetched from
\* ada4.htm, no notes were fetched and the success body has empty notesHtml.
C15_Witness ==
    /\ revision = "catalog"
    /\ request.id = "p4c1"
    /\ stage = "done"
    /\ Len(fetches) = 1
    /\ fetches[1].url = <<AdaOrigin, "/", "ada4.htm">>
    /\ responses[1].status = 200
    /\ responses[1].body.notesHtml = ""

-----------------------------------------------------------------------------
(* Two chapter loads in flight *)

\* C17: a load triggered while another is in flight cancels nothing: the
\* request just made joins the ones in flight, and each response is applied
\* when it arrives, so that right after a response the title, the text and the
\* annotations tree are those of that response, whatever was displayed before
\* and in whatever order the loads were requested; once nothing is in flight
\* the response that arrived last is the one displayed.
C17_LastArrivalWins ==
    /\ event.handler = "loadChapter" =>
          /\ Len(inflight) >= 1
          /\ inflight[Len(inflight)].chapter = event.arg[1]
    /\ event.handler = "loadChapter.resume" =>
          /\ chapterTitle = event.arg[1]
          /\ textContainer = [kind |-> "shown", chapter |-> event.arg[1]]
          /\ notesDom = IF NotesTree(event.arg[1]) = <<>> THEN "null" ELSE event.arg[1]
          /\ notesHtml = IF NotesTree(event.arg[1]) = <<>> THEN <<>>
                         ELSE WholeNotes(event.arg[1])

\* C17 witness: p1c1 was requested first and p1c2 second, while p1c1 was in
\* flight; the response for p1c2 arrived first and was displayed, then the one
\* for p1c1 arrived: both have resolved and p1c1, requested first, is displayed.
C17_Witness ==
    /\ event.handler = "loadChapter.resume"
    /\ event.arg = <<"p1c1">>
    /\ event.text = [kind |-> "shown", chapter |-> "p1c2"]
    /\ selectValue = "p1c2"
    /\ inflight = <<>>
    /\ chapterTitle = "p1c1"
    /\ notesDom = "p1c1"

====
